---- MODULE Spec2Model ----
(***************************************************************************)
(* Model of the asynchronous primitives of js-utils:                       *)
(*   src/src/queue.rs  -- Queue<T> with the Pop future                     *)
(*   src/src/spawn.rs  -- JoinHandle<T> over a spawned task                *)
(*   src/src/event.rs  -- EventStream<T, E> over an event listener         *)
(***************************************************************************)
EXTENDS Integers, Sequences, FiniteSets, TLC

(* ---------------------------- bounds ----------------------------------- *)
\* number of push calls explored (the pushed values are 1, 2, ..., MaxPush)
MaxPush == 3
\* largest capacity given to with_capacity; capacity 0 is Queue::new()
MaxCap == 2
\* number of Pop futures alive at the same time (the id of a dropped Pop is
\* handed out again by a later pop())
NPops == 2
\* longest waiter list explored (a pending poll is cut off beyond it)
MaxWakers == 3
\* number of distinct task wakers (Context) that poll a Pop
NTasks == 1

Pops == 1..NPops
Tasks == 1..NTasks

(* ---------------------------- queue state ------------------------------ *)
VARIABLES
    ctor,       \* history: the constructor call that was made and its argument
    capacity,   \* Queue.capacity (0 = unbounded), or Panic: no Queue was created
    buffer,     \* State.buffer, index 1 is the front of the VecDeque
    wakers,     \* State.wakers, index 1 is the front; a Weak is the id of its Pop,
                \* or Dead once the Rc<PopWaker> it points to has been released
    pops,       \* the Pop futures: lifecycle, terminated, waker, PopWaker.woken
    pushed,     \* number of push calls made so far
    popped,     \* history: the values returned by poll/try_pop, in order
    evicted,    \* history: the values removed by truncate
    last        \* history: the last operation, what it returned and whom it woke

qvars == <<ctor, capacity, buffer, wakers, pops, pushed, popped, evicted, last>>

(* ---------------------------- task handle state ------------------------ *)
VARIABLES
    result,     \* State.result
    jwaker,     \* State.waker (0 = None, otherwise the task of the Waker)
    running,    \* the spawned future has not yet reached set_result
    output,     \* the value future.await yields
    aborts,     \* number of abort() calls made
    jpolls,     \* number of polls of the handle made
    writes,     \* history: how many times State.result was set to Some
    first,      \* history: the first value written to State.result
    joined,     \* history: the Poll::Ready outputs of the handle, in order
    jlast       \* history: the last operation and the task whose Waker it invoked

jvars == <<result, jwaker, running, output, aborts, jpolls, writes, first,
           joined, jlast>>

(* ---------------------------- event stream state ----------------------- *)
VARIABLES
    listener,   \* EventStream.listener is Some: the callback is subscribed
    equeue,     \* State.queue, index 1 is the front of the VecDeque
    ewaker,     \* State.waker (0 = None, otherwise the task of the Waker)
    fired,      \* number of events the event target has fired (events are 1, 2, ...)
    stops,      \* number of stop() calls made
    delivered,  \* history: the events poll_next returned, in order
    cut,        \* history: the number of events fired before the first stop() (-1: none yet)
    cutbuf,     \* history: the number of events buffered at the first stop() (-1: none yet)
    ended,      \* history: a poll_next returned Ready(None)
    esusp,      \* history: the task whose poll_next was the last one and was Pending
    enotified,  \* history: the waker of that task was invoked since
    elast       \* history: the last operation, its outcome and the task it woke

evars == <<listener, equeue, ewaker, fired, stops, delivered, cut, cutbuf, ended,
           esusp, enotified, elast>>

\* what the operations of the queue leave alone, those of the task handle, and
\* those of the event stream
notQueue == <<jvars, evars>>

notSpawn == <<qvars, evars>>

notStream == <<qvars, jvars>>

vars == <<qvars, jvars, evars>>

\* Pop { queue, terminated: false, waker: None }; waker = 0 is None, otherwise
\* Some(Rc<PopWaker>) whose Waker belongs to that task
\* got is history: the value the Pop resolved to (0 = none yet)
NewPop == [st |-> "live", terminated |-> FALSE, waker |-> 0, woken |-> FALSE,
           got |-> 0]

AbsentPop == [st |-> "absent", terminated |-> FALSE, waker |-> 0, woken |-> FALSE,
              got |-> 0]

\* a Weak<RefCell<PopWaker>> whose Rc is gone: upgrade() returns None for ever
Dead == 0

\* releasing the Rc<PopWaker> of Pop p turns every Weak to it into a dead one
release(ws, p) == [i \in 1..Len(ws) |-> IF ws[i] = p THEN Dead ELSE ws[i]]

\* held: the RefCell of the queue state was borrowed when the waker was invoked
Op(name, p, ret, woke, task) ==
    [op |-> name, pop |-> p, ret |-> ret, woke |-> woke, task |-> task,
     held |-> FALSE]

(* ---------------------------- VecDeque --------------------------------- *)
\* slip: push_back, which with pop_back makes the buffer a stack
push_back(q, e) == q \o <<e>>

push_front(q, e) == <<e>> \o q

\* slip: the front (newest) elements are dropped instead of the back ones
truncate_front(q, n) == IF Len(q) > n THEN SubSeq(q, Len(q) - n + 1, Len(q)) ELSE q

\* slip: the truncation is left out
truncate_none(q, n) == q

\* truncate(len): keeps the first len elements, drops the rest from the back
truncate(q, n) == IF Len(q) > n THEN SubSeq(q, 1, n) ELSE q

\* the deque without its back element
pop_back(q) == SubSeq(q, 1, Len(q) - 1)

back(q) == q[Len(q)]

\* the deque without its front element
pop_front(q) == Tail(q)

(* ---------------------------- queries ---------------------------------- *)
len == Len(buffer)

is_empty == Len(buffer) = 0

is_full == IF capacity = 0 THEN FALSE ELSE len = capacity

(* ---------------------------- wake_next -------------------------------- *)
\* Weak::upgrade succeeds while the Pop still owns its Rc<PopWaker>
upgrade(ps, p) == p # Dead /\ ps[p].st = "live" /\ ps[p].waker # 0

\* slip: the break sits outside the upgrade test, so a stale registration at
\* the front ends the loop
wake_next_noskip(ws, ps) ==
    IF ws = <<>> THEN [wakers |-> <<>>, woke |-> 0, held |-> FALSE]
    ELSE [wakers |-> pop_front(ws),
          woke |-> IF upgrade(ps, Head(ws)) THEN Head(ws) ELSE 0,
          held |-> upgrade(ps, Head(ws))]

\* while let Some(waker) = self.state.borrow_mut().wakers.pop_front() { if
\* upgrade { woken = true; wake_by_ref(); break } }: the registrations that are
\* left, the Pop woken (0 when the list ran out) and whether state was borrowed
\* at the wake. The RefMut is a temporary of the scrutinee of the while let: it
\* is dropped at the end of the loop body, after wake_by_ref()
RECURSIVE wake_next(_, _)
wake_next(ws, ps) ==
    IF ws = <<>> THEN [wakers |-> <<>>, woke |-> 0, held |-> FALSE]
    ELSE IF upgrade(ps, Head(ws))
         THEN [wakers |-> pop_front(ws), woke |-> Head(ws), held |-> TRUE]
         ELSE wake_next(pop_front(ws), ps)

SetWoken(ps, p) == IF p = 0 THEN ps ELSE [ps EXCEPT ![p].woken = TRUE]

WokenTask(ps, p) == IF p = 0 THEN 0 ELSE ps[p].waker

(* ---------------------------- operations ------------------------------- *)
\* the constructor panicked: there is no Queue
Panic == -1

\* Queue::new: the capacity field of the unbounded queue
new == 0

\* slip: with_capacity without its assert
with_capacity_unchecked(c) == c

\* Queue::with_capacity(capacity): assert!(capacity > 0, ...), then the
\* capacity field of the queue
with_capacity(c) == IF c > 0 THEN c ELSE Panic

\* a Queue exists
Constructed == capacity # Panic

QInit ==
    /\ ctor \in {[fn |-> "new", arg |-> 0]}
                \cup {[fn |-> "with_capacity", arg |-> c] : c \in 0..MaxCap}
    /\ capacity = IF ctor.fn = "new" THEN new ELSE with_capacity(ctor.arg)
    /\ buffer = <<>>
    /\ wakers = <<>>
    /\ pops = [p \in Pops |-> AbsentPop]
    /\ pushed = 0
    /\ popped = <<>>
    /\ evicted = {}
    /\ last = Op("new", 0, 0, 0, 0)

\* slip: the loop of wake_next has no break, every live registered Pop is woken
PushWakeAll ==
    /\ Constructed
    /\ pushed < MaxPush
    /\ LET element == pushed + 1
           pushedq == push_front(buffer, element)
           kept    == IF capacity > 0 THEN truncate(pushedq, capacity) ELSE pushedq
           wn      == wake_next(wakers, pops)
           all     == {wakers[i] : i \in {j \in 1..Len(wakers) : wakers[j] # Dead}}
       IN  /\ buffer' = kept
           /\ evicted' = evicted \cup
                  ({pushedq[i] : i \in 1..Len(pushedq)} \ {kept[i] : i \in 1..Len(kept)})
           /\ wakers' = <<>>
           /\ pops' = [p \in Pops |-> IF p \in all THEN [pops[p] EXCEPT !.woken = TRUE]
                                      ELSE pops[p]]
           /\ pushed' = element
           /\ last' = [Op("push", 0, element, wn.woke, WokenTask(pops, wn.woke))
                          EXCEPT !.held = wn.held]
    /\ UNCHANGED <<ctor, capacity, popped, notQueue>>

\* Queue::push(element): the element is the ordinal of the call
Push ==
    /\ Constructed
    /\ pushed < MaxPush
    /\ LET element == pushed + 1
           pushedq == push_front(buffer, element)
           kept    == IF capacity > 0 THEN truncate(pushedq, capacity) ELSE pushedq
           wn      == wake_next(wakers, pops)
       IN  /\ buffer' = kept
           /\ evicted' = evicted \cup
                  ({pushedq[i] : i \in 1..Len(pushedq)} \ {kept[i] : i \in 1..Len(kept)})
           /\ wakers' = wn.wakers
           /\ pops' = SetWoken(pops, wn.woke)
           /\ pushed' = element
           /\ last' = [Op("push", 0, element, wn.woke, WokenTask(pops, wn.woke))
                          EXCEPT !.held = wn.held]
    /\ UNCHANGED <<ctor, capacity, popped, notQueue>>

\* Queue::pop(): a new Pop future (it takes the lowest free id)
PopNew(p) ==
    /\ Constructed
    /\ pops[p].st = "absent"
    /\ \A q \in Pops : q < p => pops[q].st = "live"
    /\ pops' = [pops EXCEPT ![p] = NewPop]
    /\ last' = Op("pop", p, 0, 0, 0)
    /\ UNCHANGED <<ctor, capacity, buffer, wakers, pushed, popped, evicted, notQueue>>

\* slip: the back element is read but not removed
TryPopKeep ==
    /\ Constructed
    /\ IF buffer # <<>>
       THEN /\ popped' = Append(popped, back(buffer))
            /\ last' = Op("try_pop", 0, back(buffer), 0, 0)
            /\ UNCHANGED buffer
       ELSE /\ UNCHANGED <<buffer, popped>>
            /\ last' = Op("try_pop", 0, 0, 0, 0)
    /\ UNCHANGED <<ctor, capacity, wakers, pops, pushed, evicted, notQueue>>

\* Queue::try_pop(): ret 0 is None
TryPop ==
    /\ Constructed
    /\ IF buffer # <<>>
       THEN /\ buffer' = pop_back(buffer)
            /\ popped' = Append(popped, back(buffer))
            /\ last' = Op("try_pop", 0, back(buffer), 0, 0)
       ELSE /\ UNCHANGED <<buffer, popped>>
            /\ last' = Op("try_pop", 0, 0, 0, 0)
    /\ UNCHANGED <<ctor, capacity, wakers, pops, pushed, evicted, notQueue>>

\* <Pop as FusedFuture>::is_terminated
pop_is_terminated(p) == pops[p].terminated

\* PopWaker::update: the stored Waker is replaced unless it wakes the same task
update(w, cx) == IF w # cx THEN cx ELSE w

\* slip: poll does not look at the terminated flag
PollAgain(p, cx) ==
    /\ pops[p].st = "live"
    /\ IF buffer # <<>>
       THEN /\ buffer' = pop_back(buffer)
            /\ popped' = Append(popped, back(buffer))
            /\ pops' = [pops EXCEPT ![p].terminated = TRUE, ![p].waker = 0,
                                    ![p].woken = FALSE, ![p].got = back(buffer)]
            /\ wakers' = release(wakers, p)
            /\ last' = Op("poll", p, back(buffer), 0, 0)
       ELSE /\ Len(wakers) < MaxWakers
            /\ pops' = [pops EXCEPT
                  ![p].waker = IF pops[p].waker # 0
                               THEN update(pops[p].waker, cx) ELSE cx,
                  ![p].woken = FALSE]
            /\ wakers' = push_front(wakers, p)
            /\ last' = Op("poll", p, 0, 0, 0)
            /\ UNCHANGED <<buffer, popped>>
    /\ UNCHANGED <<ctor, capacity, pushed, evicted, notQueue>>

\* <Pop as Future>::poll with the waker of task cx: ret 0 is Poll::Pending
Poll(p, cx) ==
    /\ pops[p].st = "live"
    /\ IF pops[p].terminated
       THEN /\ last' = Op("poll", p, 0, 0, 0)
            /\ UNCHANGED <<buffer, wakers, pops, popped>>
       ELSE IF buffer # <<>>
       THEN /\ buffer' = pop_back(buffer)
            /\ popped' = Append(popped, back(buffer))
            /\ pops' = [pops EXCEPT ![p].terminated = TRUE, ![p].waker = 0,
                                    ![p].woken = FALSE, ![p].got = back(buffer)]
            /\ wakers' = release(wakers, p)
            /\ last' = Op("poll", p, back(buffer), 0, 0)
       ELSE /\ Len(wakers) < MaxWakers
            /\ pops' = [pops EXCEPT
                  ![p].waker = IF pops[p].waker # 0
                               THEN update(pops[p].waker, cx) ELSE cx,
                  ![p].woken = FALSE]
            /\ wakers' = push_front(wakers, p)
            /\ last' = Op("poll", p, 0, 0, 0)
            /\ UNCHANGED <<buffer, popped>>
    /\ UNCHANGED <<ctor, capacity, pushed, evicted, notQueue>>

\* slip: drop does not pass the wake-up on
DropPopSilent(p) ==
    /\ pops[p].st = "live"
    /\ pops' = [pops EXCEPT ![p] = AbsentPop]
    /\ wakers' = release(wakers, p)
    /\ last' = Op("drop", p, IF pops[p].waker # 0 /\ pops[p].woken THEN 1 ELSE 0, 0, 0)
    /\ UNCHANGED <<ctor, capacity, buffer, pushed, popped, evicted, notQueue>>

\* <Pop as Drop>::drop: the Rc is taken (and released) before wake_next runs
DropPop(p) ==
    /\ pops[p].st = "live"
    /\ LET was_woken == pops[p].waker # 0 /\ pops[p].woken
           gone == [pops EXCEPT ![p] = AbsentPop]
           freed == release(wakers, p)
           wn   == wake_next(freed, gone)
       IN  IF was_woken
           THEN /\ wakers' = wn.wakers
                /\ pops' = SetWoken(gone, wn.woke)
                /\ last' = [Op("drop", p, 1, wn.woke, WokenTask(gone, wn.woke))
                               EXCEPT !.held = wn.held]
           ELSE /\ wakers' = freed
                /\ pops' = gone
                /\ last' = Op("drop", p, 0, 0, 0)
    /\ UNCHANGED <<ctor, capacity, buffer, pushed, popped, evicted, notQueue>>

(* ======================= spawn.rs: JoinHandle ========================== *)
\* values a spawned computation can return
MaxValue == 2
\* number of abort() calls explored
MaxAbort == 2
\* number of polls of the JoinHandle explored
MaxJoinPoll == 4
\* number of distinct task wakers that poll the JoinHandle
NJoiners == 2

Values == 1..MaxValue
Joiners == 1..NJoiners

\* Option<Result<T, JoinError>>: None, Err(JoinError {}), Ok(v) for v in Values
None == 0
Cancelled == -1

\* held: the Mutex of the handle state was locked when the waker was invoked;
\* cx: the task whose waker a poll came with (0 for the other operations)
JOp(name, ret, woke) ==
    [op |-> name, ret |-> ret, woke |-> woke, held |-> FALSE, cx |-> 0]

\* State::is_finished
is_finished == result # None

\* slip: the result is stored and the waker is left where it is, not invoked
set_result_silent(res, wk, value) ==
    IF res = None
    THEN [result |-> value, waker |-> wk, woke |-> 0, wrote |-> TRUE,
          held |-> FALSE]
    ELSE [result |-> res, waker |-> wk, woke |-> 0, wrote |-> FALSE,
          held |-> FALSE]

\* State::set_result followed by State::wake: the new result, the new waker,
\* the task woken (0 = nobody), whether the slot was written, and whether the
\* Mutex was locked at the wake: set_result runs on the guard of
\* self.state.lock(), which is dropped when the statement ends
set_result(res, wk, value) ==
    IF res = None
    THEN [result |-> value, waker |-> 0, woke |-> wk, wrote |-> TRUE,
          held |-> wk # 0]
    ELSE [result |-> res, waker |-> wk, woke |-> 0, wrote |-> FALSE,
          held |-> FALSE]

\* State::update_waker
update_waker(wk, cx) == IF wk # 0 THEN (IF cx # wk THEN cx ELSE wk) ELSE cx

\* spawn(future): JoinHandle::new() and the future handed to spawn_local
JInit ==
    /\ result = None
    /\ jwaker = 0
    /\ running = TRUE
    /\ output \in Values
    /\ aborts = 0
    /\ jpolls = 0
    /\ writes = 0
    /\ first = None
    /\ joined = <<>>
    /\ jlast = JOp("spawn", None, 0)

Record(sr, value) ==
    /\ result' = sr.result
    /\ jwaker' = sr.waker
    /\ writes' = IF sr.wrote THEN writes + 1 ELSE writes
    /\ first' = IF sr.wrote /\ first = None THEN value ELSE first

\* the spawned task: join_handle_clone.set_result(future.await)
Complete ==
    /\ running
    /\ running' = FALSE
    /\ LET sr == set_result(result, jwaker, output)
       IN  /\ Record(sr, output)
           /\ jlast' = [JOp("complete", output, sr.woke) EXCEPT !.held = sr.held]
    /\ UNCHANGED <<output, aborts, jpolls, joined, notSpawn>>

\* JoinHandle::abort
Abort ==
    /\ aborts < MaxAbort
    /\ aborts' = aborts + 1
    /\ LET sr == set_result(result, jwaker, Cancelled)
       IN  /\ Record(sr, Cancelled)
           /\ jlast' = [JOp("abort", Cancelled, sr.woke) EXCEPT !.held = sr.held]
    /\ UNCHANGED <<running, output, jpolls, joined, notSpawn>>

\* slip: the result is read but left in the slot
JoinPollKeep(cx) ==
    /\ jpolls < MaxJoinPoll
    /\ jpolls' = jpolls + 1
    /\ IF result # None
       THEN /\ joined' = Append(joined, result)
            /\ jlast' = [JOp("poll", result, 0) EXCEPT !.cx = cx]
            /\ UNCHANGED <<result, jwaker>>
       ELSE /\ jwaker' = update_waker(jwaker, cx)
            /\ jlast' = [JOp("poll", None, 0) EXCEPT !.cx = cx]
            /\ UNCHANGED <<result, joined>>
    /\ UNCHANGED <<running, output, aborts, writes, first, notSpawn>>

\* <JoinHandle as Future>::poll with the waker of task cx: ret None is Pending
JoinPoll(cx) ==
    /\ jpolls < MaxJoinPoll
    /\ jpolls' = jpolls + 1
    /\ IF result # None
       THEN /\ result' = None
            /\ joined' = Append(joined, result)
            /\ jlast' = [JOp("poll", result, 0) EXCEPT !.cx = cx]
            /\ UNCHANGED jwaker
       ELSE /\ jwaker' = update_waker(jwaker, cx)
            /\ jlast' = [JOp("poll", None, 0) EXCEPT !.cx = cx]
            /\ UNCHANGED <<result, joined>>
    /\ UNCHANGED <<running, output, aborts, writes, first, notSpawn>>

(* ======================= event.rs: EventStream ========================= *)
\* number of events the event target fires
MaxEvents == 3
\* number of stop() calls explored
MaxStop == 2
\* number of distinct task wakers that poll the stream
NPollers == 2

Pollers == 1..NPollers

\* Poll<Option<E>>: Pending, Ready(None), Ready(Some(e)) for an event e >= 1
Pending == 0
End == -1

\* held: State was borrowed when the waker was invoked
EOp(name, ret, woke, held) == [op |-> name, ret |-> ret, woke |-> woke, held |-> held]

\* VecDeque::push_back
enqueue(q, e) == Append(q, e)

\* slip: the buffer is not looked at
is_terminated_stopped == ~listener

\* FusedStream::is_terminated
is_terminated == ~listener /\ equeue = <<>>

\* slip: a waker that is already stored is never replaced
register_stale(wk, cx) == IF wk # 0 THEN wk ELSE cx

\* poll_next: the waker kept in State after a Pending poll of task cx
register(wk, cx) == IF wk # 0 THEN (IF wk # cx THEN cx ELSE wk) ELSE cx

\* Stream::listen: an empty State and a subscribed listener
EInit ==
    /\ listener = TRUE
    /\ equeue = <<>>
    /\ ewaker = 0
    /\ fired = 0
    /\ stops = 0
    /\ delivered = <<>>
    /\ cut = -1
    /\ cutbuf = -1
    /\ ended = FALSE
    /\ esusp = 0
    /\ enotified = FALSE
    /\ elast = EOp("listen", Pending, 0, FALSE)

\* the wake of the task in State.waker reaches the suspended consumer
Notify(woke) == enotified' = (enotified \/ (woke # 0 /\ woke = esusp))

\* slip: stop() keeps the listener subscribed, the closure still runs
FireAlways ==
    /\ fired < MaxEvents
    /\ fired' = fired + 1
    /\ equeue' = enqueue(equeue, fired + 1)
    /\ elast' = EOp("event", 1, ewaker, ewaker # 0)
    /\ Notify(ewaker)
    /\ UNCHANGED <<listener, ewaker, stops, delivered, cut, cutbuf, ended, esusp,
                   notStream>>

\* the event target fires an event: the closure of listen runs while the
\* listener is subscribed (ret 1), a removed listener is not called (ret 0)
Fire ==
    /\ fired < MaxEvents
    /\ fired' = fired + 1
    /\ IF listener
       THEN /\ equeue' = enqueue(equeue, fired + 1)
            /\ elast' = EOp("event", 1, ewaker, ewaker # 0)
            /\ Notify(ewaker)
       ELSE /\ elast' = EOp("event", 0, 0, FALSE)
            /\ UNCHANGED <<equeue, enotified>>
    /\ UNCHANGED <<listener, ewaker, stops, delivered, cut, cutbuf, ended, esusp,
                   notStream>>

\* slip: a stop() on a stopped stream subscribes a listener again and clears
\* the buffer
StopToggle ==
    /\ stops < MaxStop
    /\ stops' = stops + 1
    /\ listener' = ~listener
    /\ equeue' = IF listener THEN equeue ELSE <<>>
    /\ cut' = IF cut = -1 THEN fired ELSE cut
    /\ cutbuf' = IF cut = -1 THEN Len(equeue) ELSE cutbuf
    /\ elast' = EOp("stop", 0, ewaker, ewaker # 0)
    /\ Notify(ewaker)
    /\ UNCHANGED <<ewaker, fired, delivered, ended, esusp, notStream>>

\* slip: stop() drops the listener and leaves the waker alone
StopSilent ==
    /\ stops < MaxStop
    /\ stops' = stops + 1
    /\ listener' = FALSE
    /\ cut' = IF cut = -1 THEN fired ELSE cut
    /\ cutbuf' = IF cut = -1 THEN Len(equeue) ELSE cutbuf
    /\ elast' = EOp("stop", 0, 0, FALSE)
    /\ UNCHANGED <<equeue, ewaker, fired, delivered, ended, esusp, enotified, notStream>>

\* EventStream::stop: the listener is dropped (Drop removes it from the
\* target) and the waker in State is invoked under State.borrow()
Stop ==
    /\ stops < MaxStop
    /\ stops' = stops + 1
    /\ listener' = FALSE
    /\ cut' = IF cut = -1 THEN fired ELSE cut
    /\ cutbuf' = IF cut = -1 THEN Len(equeue) ELSE cutbuf
    /\ elast' = EOp("stop", 0, ewaker, ewaker # 0)
    /\ Notify(ewaker)
    /\ UNCHANGED <<equeue, ewaker, fired, delivered, ended, esusp, notStream>>

\* <EventStream as Stream>::poll_next with the waker of task cx
PollNext(cx) ==
    /\ IF equeue # <<>>
       THEN /\ equeue' = pop_front(equeue)
            /\ delivered' = Append(delivered, Head(equeue))
            /\ elast' = EOp("poll", Head(equeue), 0, FALSE)
            /\ esusp' = 0
            /\ UNCHANGED <<ewaker, ended>>
       ELSE IF ~listener
       THEN /\ ended' = TRUE
            /\ elast' = EOp("poll", End, 0, FALSE)
            /\ esusp' = 0
            /\ UNCHANGED <<equeue, ewaker, delivered>>
       ELSE /\ ewaker' = register(ewaker, cx)
            /\ elast' = EOp("poll", Pending, 0, FALSE)
            /\ esusp' = cx
            /\ UNCHANGED <<equeue, delivered, ended>>
    /\ enotified' = FALSE
    /\ UNCHANGED <<listener, fired, stops, cut, cutbuf, notStream>>

(* ======================= specifications ================================ *)
\* the queue, bounded or not, with an idle task handle
QueueInit == QInit /\ JInit /\ output = 1 /\ EInit

\* Queue::new() with any number of Pop futures: the waiter list at work
Init == QueueInit /\ capacity = 0

Next ==
    \/ Push
    \/ TryPop
    \/ \E p \in Pops : PopNew(p)
    \/ \E p \in Pops, cx \in Tasks : Poll(p, cx)
    \/ \E p \in Pops : DropPop(p)

Spec == Init /\ [][Next]_vars

\* the queue with several producers and a single consumer, which holds one
\* Pop future at a time and may call try_pop as well
ConsumerNext ==
    \/ Push
    \/ TryPop
    \/ PopNew(1)
    \/ \E cx \in Tasks : Poll(1, cx)
    \/ DropPop(1)

ConsumerSpec == QueueInit /\ [][ConsumerNext]_vars

\* the same with a consumer that keeps calling try_pop
LiveSpec == QueueInit /\ [][ConsumerNext]_vars /\ WF_vars(TryPop)

\* the task handle on its own
SpawnInit == QInit /\ JInit /\ capacity = 0 /\ EInit

SpawnNext ==
    \/ Complete
    \/ Abort
    \/ \E cx \in Joiners : JoinPoll(cx)

SpawnSpec == SpawnInit /\ [][SpawnNext]_vars

\* the event stream on its own
StreamInit == QueueInit /\ capacity = 0

StreamNext ==
    \/ Fire
    \/ Stop
    \/ \E cx \in Pollers : PollNext(cx)

StreamSpec == StreamInit /\ [][StreamNext]_vars

\* the executor polls a suspended consumer again once its waker was invoked
RePoll == esusp # 0 /\ enotified /\ PollNext(esusp)

StreamLive == StreamInit /\ [][StreamNext]_vars /\ WF_vars(RePoll)

(* ======================= properties of the queue ======================= *)
Range(q) == {q[i] : i \in 1..Len(q)}

Reverse(q) == [i \in 1..Len(q) |-> q[Len(q) + 1 - i]]

Count(x, q) == Cardinality({i \in 1..Len(q) : q[i] = x})

\* C1: FIFO order. With no eviction, the values returned by poll and try_pop,
\* in the order they were returned, are exactly the pushed values 1, 2, ...
\* in push order, however the pops interleave with the pushes.
C1_FifoOrder ==
    evicted = {} => popped = [i \in 1..Len(popped) |-> i]

\* every pushed value drained in order, the last one through a Pop future and
\* an earlier one through try_pop (some Pop resolved to a value above 1 while
\* fewer Pops resolved than values were returned)
C1_Witness ==
    /\ evicted = {}
    /\ Len(popped) = MaxPush
    /\ last.op = "poll" /\ last.ret = MaxPush
    /\ Cardinality({p \in Pops : pops[p].got # 0}) < MaxPush

\* C2: no loss and no duplication. No value is returned twice; with no
\* eviction every pushed value is either already returned or still buffered;
\* and under a consumer that keeps calling try_pop every pushed value is
\* eventually returned unless an eviction occurs.
C2_NoDup ==
    \A i, j \in 1..Len(popped) : i # j => popped[i] # popped[j]

C2_Conserved ==
    evicted = {} =>
        /\ Range(popped) \cup Range(buffer) = 1..pushed
        /\ Range(popped) \cap Range(buffer) = {}
        /\ Len(popped) + Len(buffer) = pushed

C2_NoLossNoDup ==
    /\ [](C2_NoDup /\ C2_Conserved)
    /\ \A v \in 1..MaxPush :
           (pushed >= v) ~> (v \in Range(popped) \/ evicted # {})

\* all values pushed and all of them returned, none evicted
C2_Witness ==
    /\ pushed = MaxPush
    /\ evicted = {}
    /\ Range(popped) = 1..MaxPush
    /\ buffer = <<>>
    /\ last.op = "try_pop" /\ last.ret = MaxPush

\* C6: bounded eviction. In a queue of capacity k every evicted value is older
\* than every buffered value, the value just pushed is never evicted, and after
\* the first k+1 pushes with no pop in between exactly value 1 is gone and the
\* pops that follow return 2..k+1 in that order.
C6_EvictsOldest ==
    capacity > 0 =>
        /\ \A e \in evicted : \A b \in Range(buffer) \cup Range(popped) : e # b
        /\ \A e \in evicted : \A b \in Range(buffer) : e < b
        /\ (last.op = "push" => buffer # <<>> /\ buffer[1] = pushed)
        /\ (pushed = capacity + 1 /\ popped = <<>>) =>
               /\ evicted = {1}
               /\ Reverse(buffer) = [i \in 1..capacity |-> i + 1]
        /\ (pushed = capacity + 1 /\ 1 \in evicted) =>
               /\ evicted = {1}
               /\ popped \o Reverse(buffer) = [i \in 1..capacity |-> i + 1]

\* capacity k = MaxCap, k+1 values pushed, value 1 evicted, 2..k+1 returned
C6_Witness ==
    /\ capacity = MaxCap
    /\ pushed = capacity + 1
    /\ evicted = {1}
    /\ popped = [i \in 1..capacity |-> i + 1]
    /\ last.op = "try_pop"

\* C7: capacity invariant. A bounded queue never holds more than capacity
\* values and is_full() holds exactly when it holds capacity values; an
\* unbounded queue is never full.
C7_Capacity ==
    /\ capacity > 0 => (len <= capacity /\ (is_full <=> len = capacity))
    /\ capacity = 0 => ~is_full

\* a bounded queue that is full after a push that evicted something
C7_Witness ==
    /\ capacity > 0
    /\ is_full
    /\ evicted # {}
    /\ last.op = "push"

\* an unbounded queue holding more values than any bounded one could
C7_WitnessUnbounded ==
    capacity = 0 /\ len = MaxPush /\ ~is_full

\* positions of the waiter list that hold a registration of a live Pop
LiveAt(ws) == {i \in 1..Len(ws) : ws[i] # Dead}

Waiting(ws) == {ws[i] : i \in LiveAt(ws)}

Max(S) == CHOOSE x \in S : \A y \in S : y <= x

\* the Pops whose woken flag a step turns on
NewlyWoken == {q \in Pops : pops'[q].st = "live" /\ pops'[q].woken /\ ~pops[q].woken}

\* a step changes nothing of Pop q: neither the Pop nor its registrations
Untouched(q) == pops'[q] = pops[q] /\ Count(q, wakers') = Count(q, wakers)

C4_WakesEarliest ==
    [][last'.op = "push" =>
          (LiveAt(wakers) # {} => last'.woke = wakers[Max(LiveAt(wakers))])]_vars

\* C5: at most one waiter is woken per push. A push turns on the woken flag of
\* at most one Pop and invokes only that Pop's waker, taking one registration
\* of it off the list; every other Pop keeps its flag and its registrations;
\* and no step other than a push or the drop of a woken Pop wakes anybody.
C5_OneWakePerPush ==
    [][/\ last'.op = "push" =>
            /\ Cardinality(NewlyWoken) <= 1
            /\ NewlyWoken \subseteq {last'.woke}
            /\ \A q \in Pops : q # last'.woke => Untouched(q)
            /\ last'.woke # 0 =>
                   /\ pops'[last'.woke].woken
                   /\ Count(last'.woke, wakers') = Count(last'.woke, wakers) - 1
       /\ NewlyWoken # {} =>
            \/ last'.op = "push"
            \/ last'.op = "drop" /\ last'.ret = 1]_vars

\* a push woke one of two waiting Pops, the other one is still asleep and
\* registered
C5_Witness ==
    /\ last.op = "push"
    /\ last.woke # 0
    /\ \E q \in Waiting(wakers) : q # last.woke /\ ~pops[q].woken

\* C8: abandoned waiters are skipped. Every registration left in the list
\* belongs to a live pending Pop or is stale; a push never ends its wake-up on
\* a stale registration: it wakes a live registered Pop whenever one exists
\* and nobody otherwise; the drop of a Pop that was not woken wakes nobody.
C8_Registered ==
    \A i \in LiveAt(wakers) :
        /\ pops[wakers[i]].st = "live"
        /\ ~pops[wakers[i]].terminated
        /\ pops[wakers[i]].waker # 0

C8_SkipsAbandoned ==
    /\ []C8_Registered
    /\ [][/\ last'.op = "push" =>
               IF Waiting(wakers) = {}
               THEN last'.woke = 0 /\ NewlyWoken = {}
               ELSE /\ last'.woke \in Waiting(wakers)
                    /\ pops'[last'.woke].woken
          /\ (last'.op = "drop" /\ last'.ret = 0) =>
               /\ last'.woke = 0
               /\ NewlyWoken = {}
               /\ \A q \in Pops : q # last'.pop => Untouched(q)]_vars

\* all the Pops, pending behind a stale registration, were woken by as many
\* pushes and have resolved to the pushed values in push order
C8_Witness ==
    /\ pushed = NPops
    /\ \A p \in Pops : pops[p].got = p
    /\ wakers = <<Dead>>
    /\ popped = [i \in 1..NPops |-> i]

(* ======================= properties of the task handle ================= *)
\* C9: abort race. If abort() made the first write, every output of join is
\* the cancellation error, also after the computation has finished; if the
\* computation made the first write, a later abort() leaves the value in the
\* slot and the first output of join is that value.
C9_AbortRace ==
    /\ first = Cancelled => \A i \in 1..Len(joined) : joined[i] = Cancelled
    /\ first \in Values =>
           /\ joined # <<>> => joined[1] = first
           /\ joined = <<>> => result = first

\* C10: the result is write-once. The slot is populated at most once, and
\* once abort() has made the first write the slot never holds a value of the
\* computation.
C10_WriteOnce ==
    /\ writes <= 1
    /\ first = Cancelled => result \notin Values

\* C11: is_finished(). It is false while nothing has been recorded and true in
\* every state after a result was recorded, also after a poll of the handle.
C11_FinishedStays ==
    /\ writes = 0 => ~is_finished
    /\ writes > 0 => is_finished

\* C12: single consumption. The handle resolves at most once per recorded
\* result and at most once to the value of the computation; a poll that
\* follows a poll that resolved is not ready and resolves to nothing.
C12_SingleConsumption ==
    /\ [](/\ Len(joined) <= writes
          /\ Cardinality({i \in 1..Len(joined) : joined[i] \in Values}) <= 1)
    /\ [][(/\ jlast.op = "poll" /\ jlast.ret # None
           /\ jlast'.op = "poll" /\ jpolls' = jpolls + 1)
          => (jlast'.ret = None /\ joined' = joined /\ result' = None)]_vars

\* the handle resolved to the value and was polled again: not ready
C12_Witness ==
    /\ joined = <<output>>
    /\ jlast.op = "poll" /\ jlast.ret = None
    /\ jpolls >= 2
    /\ writes = 1

(* ======================= properties of the event stream ================ *)
\* the events 1..n in the order they were fired
Upto(n) == [i \in 1..n |-> i]

\* the step is a call of poll_next
PollStep == elast'.op = "poll" /\ enotified' = FALSE /\ fired' = fired /\ stops' = stops

\* C13: drain then stop. Once stop() was called, the events delivered so far
\* followed by the buffer are exactly the events fired before stop(), in the
\* order they arrived, so the n events buffered at stop() are what is still
\* delivered and nothing fired after stop() is; every later poll returns the
\* oldest buffered event, and the end of the sequence when none is left.
C13_DrainThenStop ==
    /\ [](cut # -1 =>
            /\ delivered \o equeue = Upto(cut)
            /\ Len(delivered) >= cut - cutbuf
            /\ ended => delivered = Upto(cut))
    /\ [][(cut # -1 /\ PollStep) =>
            IF equeue # <<>>
            THEN /\ elast'.ret = Head(equeue)
                 /\ delivered' = Append(delivered, Head(equeue))
            ELSE /\ elast'.ret = End
                 /\ delivered' = delivered]_vars

\* events 1, 2 were buffered when stop() was called, event 3 fired after it, and
\* the consumer saw 1, 2 and then the end
C13_Witness ==
    /\ cut = 2 /\ cutbuf = 2 /\ fired = 3
    /\ delivered = <<1, 2>>
    /\ ended /\ elast.op = "poll" /\ elast.ret = End

\* the step is a call of stop()
StopStep == stops' = stops + 1

\* C14: stop liveness. A stop() made while a consumer is suspended invokes the
\* waker of that consumer; if the buffer was empty at that stop(), the next
\* poll of the consumer reports the end of the sequence; no poll of a stopped
\* stream suspends; and, the executor polling a woken consumer again, a
\* consumer suspended on a stopped stream does not stay suspended.
C14_StopWakes ==
    /\ [][(StopStep /\ esusp # 0) =>
            (elast'.woke = esusp /\ enotified' /\ esusp' = esusp)]_vars
    /\ [][(PollStep /\ ~listener /\ esusp # 0 /\ equeue = <<>>) =>
            (elast'.ret = End /\ ended')]_vars
    /\ [][(PollStep /\ ~listener) => (elast'.ret # Pending /\ esusp' = 0)]_vars
    /\ ((esusp # 0 /\ ~listener) ~> (esusp = 0))

\* the consumer that was suspended on the empty buffer when stop() was called
\* has been polled again and got the end of the sequence
C14_Witness ==
    /\ cut = 0 /\ fired = 0 /\ ewaker # 0
    /\ elast.op = "poll" /\ elast.ret = End /\ ended

\* C15: the lifecycle is monotonic. The stream is Active (the listener is
\* subscribed) exactly as long as stop() was never called: it starts Active,
\* only a stop() step ends that, no step of on_event, poll_next or stop() makes
\* a stopped stream Active again, and a stop() on a stopped stream changes
\* neither the listener nor the buffer nor the registered waker.
C15_Monotonic ==
    /\ [](listener <=> stops = 0)
    /\ [][(listener /\ ~listener') => (StopStep /\ elast'.op = "stop")]_vars
    /\ [][~listener => ~listener']_vars
    /\ [][(StopStep /\ ~listener) => UNCHANGED <<listener, equeue, ewaker, delivered>>]_vars

\* stop() was called a second time on a stopped stream with events buffered,
\* after an event was fired at the stopped stream
C15_Witness ==
    /\ stops = 2 /\ ~listener /\ elast.op = "stop"
    /\ equeue # <<>> /\ fired > cut

(* ======================= wakes and the exclusive region ================ *)
\* C16: the queue wakes outside its exclusive region. Whenever push or the drop
\* of a Pop has invoked the waker of a Pop, the borrow of the queue state was
\* already released at that moment.
C16_WakeUnborrowed == last.woke # 0 => ~last.held

\* C17: the task handle and the event stream wake outside their exclusive
\* regions. Whenever completion or abort() has woken the task joining the
\* handle, the Mutex of the handle state was not locked at that moment, and
\* whenever an event or stop() has woken the consumer of the stream, the RefCell
\* of the stream state was not borrowed at that moment.
C17_WakeUnlocked ==
    /\ jlast.woke # 0 => ~jlast.held
    /\ elast.woke # 0 => ~elast.held

(* ======================= construction ================================== *)
\* C18: Queue::with_capacity. Called with capacity 0 it fails at once: no Queue
\* exists and no operation is ever made on one. Called with a capacity above 0
\* it returns a Queue of that capacity, which is empty and has no waiter.
C18_WithCapacity ==
    /\ (ctor.fn = "with_capacity" /\ ctor.arg > 0) =>
           (buffer = <<>> /\ wakers = <<>> /\ is_empty /\ len = 0)
    /\ []((ctor.fn = "with_capacity" /\ ctor.arg = 0) =>
             (~Constructed /\ last.op = "new" /\ pushed = 0 /\ buffer = <<>>))
    /\ []((ctor.fn = "with_capacity" /\ ctor.arg > 0) =>
             (Constructed /\ capacity = ctor.arg))

\* with_capacity(0) was called and there is no Queue
C18_Witness == ctor = [fn |-> "with_capacity", arg |-> 0] /\ capacity = Panic

\* with_capacity(MaxCap) was called and the Queue is in use at that capacity
C18_WitnessCreated ==
    /\ ctor = [fn |-> "with_capacity", arg |-> MaxCap]
    /\ capacity = MaxCap /\ is_full

(* ======================= termination and wakeups of the stream ========= *)
\* C19: the termination query. is_terminated() is true exactly when stop() was
\* called and the buffer is empty; once true it stays true, and every poll made
\* from then on reports the end of the sequence and delivers nothing.
C19_Terminated ==
    /\ [](is_terminated <=> (stops > 0 /\ Len(equeue) = 0))
    /\ [][is_terminated => is_terminated']_vars
    /\ [][(is_terminated /\ PollStep) =>
            (elast'.ret = End /\ delivered' = delivered /\ esusp' = 0)]_vars

\* a terminated stream was polled, after an event was fired at it in vain
C19_Witness ==
    /\ is_terminated
    /\ fired > cut
    /\ delivered = Upto(cut) /\ cut > 0
    /\ elast.op = "poll" /\ elast.ret = End

\* the step is an event fired by the target
FireStep == fired' = fired + 1

\* C20: no lost wakeup while Active. A poll of an Active stream with an empty
\* buffer suspends with the waker of the polling task registered; an event
\* fired while a consumer is suspended on the Active stream is appended and
\* invokes that waker; so in every state a suspended consumer has its waker
\* registered and, if the buffer is not empty, has been notified.
C20_NoLostWakeup ==
    /\ [](esusp # 0 => ewaker = esusp)
    /\ []((esusp # 0 /\ equeue # <<>>) => enotified)
    /\ [][(PollStep /\ listener /\ equeue = <<>>) =>
            (elast'.ret = Pending /\ esusp' \in Pollers /\ ewaker' = esusp')]_vars
    /\ [][(FireStep /\ listener /\ esusp # 0) =>
            (/\ equeue' = Append(equeue, fired')
             /\ elast'.woke = esusp
             /\ enotified')]_vars

\* a second task took over the stream, suspended, and was woken by an event
C20_Witness ==
    /\ listener
    /\ esusp = 2 /\ ewaker = 2 /\ enotified
    /\ equeue # <<>> /\ delivered # <<>>
    /\ elast.op = "event" /\ elast.woke = 2

(* ======================= wakeups of the task handle ==================== *)
\* the step is a poll of the handle
JoinPollStep == jpolls' = jpolls + 1

\* the step is the completion of the task or a call of abort()
RecordStep == (running /\ ~running') \/ aborts' = aborts + 1

\* C21: the join has no lost wakeup. A poll that finds no result returns
\* Pending and leaves the waker of the polling task registered; a waker is
\* registered only while the slot is empty, so a completion or abort() made
\* then records its result, invokes exactly that waker and unregisters it (it
\* is not invoked again); a poll that finds a result resolves with it, and so
\* does the first poll when a result was recorded before it.
C21_JoinWakes ==
    /\ [](jwaker # 0 => result = None)
    /\ []((jpolls = 0 /\ writes > 0) => result # None)
    /\ [][(JoinPollStep /\ result = None) =>
            (jlast'.ret = None /\ jwaker' = jlast'.cx /\ jwaker' # 0)]_vars
    /\ [][(JoinPollStep /\ result # None) =>
            (jlast'.ret = result /\ joined' = Append(joined, result))]_vars
    /\ [][(RecordStep /\ jwaker # 0) =>
            (/\ writes' = writes + 1 /\ result' # None
             /\ jlast'.woke = jwaker /\ jwaker' = 0)]_vars
    /\ [][(RecordStep /\ jwaker = 0) => jlast'.woke = 0]_vars

\* a task was suspended on the handle, the completion woke the registered
\* waker, and the poll of task 2 that followed resolved with the output
C21_Witness ==
    /\ jpolls = 3 /\ writes = 1 /\ aborts = 0
    /\ joined = <<output>>
    /\ jlast.op = "poll" /\ jlast.ret = output /\ jlast.cx = 2
    /\ jwaker = 0

(* ======================= waiters of the queue ========================== *)
\* the live Pops that were polled Pending, were woken since and not polled again
WokenPending == {q \in Pops : pops[q].st = "live" /\ pops[q].waker # 0 /\ pops[q].woken}

\* C22: no sleeping waiter next to an available value. In every state where
\* the buffer holds a value and a live Pop is registered in the waiter list,
\* some live pending Pop has been woken and has not been polled since.
C22_NoSleepingWaiter ==
    (buffer # <<>> /\ Waiting(wakers) # {}) => WokenPending # {}

(* ======================= a Pop is single-shot ========================== *)
\* the step is a poll of Pop p
PollOf(p) == last'.op = "poll" /\ last'.pop = p /\ pops[p].st = "live"

\* the step is the drop of Pop p
DropOf(p) == last'.op = "drop" /\ last'.pop = p /\ pops[p].st = "live"

\* C23: a Pop is single-shot. A live Pop holds a value exactly when
\* is_terminated() is true; a poll returns a value only to a Pop that had none,
\* and terminates it; every poll of a terminated Pop returns Pending and
\* leaves the buffer, the waiter list, the Pops and the values handed out as
\* they were; the drop of a terminated Pop wakes nobody and leaves the buffer,
\* the waiter list and the other Pops as they were.
C23_SingleShot ==
    /\ [](\A p \in Pops : pops[p].st = "live" =>
              /\ pop_is_terminated(p) <=> pops[p].got # 0
              /\ pop_is_terminated(p) => (pops[p].waker = 0 /\ Count(p, wakers) = 0)
              /\ pops[p].got # 0 => Count(pops[p].got, popped) = 1)
    /\ [][\A p \in Pops : (PollOf(p) /\ last'.ret # 0) =>
              (/\ ~pop_is_terminated(p) /\ pops[p].got = 0
               /\ pops'[p].terminated /\ pops'[p].got = last'.ret)]_vars
    /\ [][\A p \in Pops : (PollOf(p) /\ pop_is_terminated(p)) =>
              (/\ last'.ret = 0
               /\ UNCHANGED <<buffer, wakers, pops, popped>>)]_vars
    /\ [][\A p \in Pops : (DropOf(p) /\ pop_is_terminated(p)) =>
              (/\ last'.woke = 0
               /\ UNCHANGED <<buffer, wakers, popped>>
               /\ \A q \in Pops : q # p => pops'[q] = pops[q])]_vars

\* a Pop that resolved was polled again while the buffer held a value and a
\* second Pop was registered: it got Pending
C23_Witness ==
    /\ last.op = "poll" /\ last.ret = 0
    /\ pops[last.pop].st = "live" /\ pops[last.pop].terminated
    /\ pops[last.pop].got # 0
    /\ buffer # <<>>
    /\ Waiting(wakers) # {}

====
